---- MODULE Spec2Model ----
(***************************************************************************)
(* The alarm monitoring engine of frontend/src/App.js: the React component *)
(* App, its three effects, its request handlers, the polling timer and the *)
(* evaluation pass checkAlarms with the notification fan-out triggerAlarm. *)
(*                                                                         *)
(* One step of the model is one macrotask of the page: an event handler,   *)
(* a timer callback or the continuation of an awaited request, together    *)
(* with the re-render and the effects that the state updates of that task  *)
(* cause.  Time is wall-clock milliseconds.                                *)
(***************************************************************************)
EXTENDS Integers, Sequences, FiniteSets, Bags, TLC

\* ------------------------------------------------------------------ bounds
\* Requests of the page that may be awaiting their response at one time.
MaxInflight == 1

\* ------------------------------------------------------- program constants
MsPerMinute == 60000
TickInterval == 10000

\* ------------------------------------------------------------- environment
\* The calendar the backend serves: one event (id, start instant in ms).
EventStart == [e \in {1} |-> 180000]
EventIds == DOMAIN EventStart
\* event_start of an alarm record whose start instant is absent.
Missing == -1
Alarm(a, start, lead) ==
  [id |-> a, event_id |-> 1, event_start |-> start, alarm_minutes_before |-> lead]
\* The alarm records of the backend, by alarm id: two alarms of the same
\* event, with leads of 1 and 2 minutes.
Catalogue == << Alarm(1, EventStart[1], 1), Alarm(2, EventStart[1], 2) >>
AlarmIds == DOMAIN Catalogue
\* The alarm lists GET /alarms may return: records of the catalogue with
\* distinct ids, in any order.
RECURSIVE ListsOver(_)
ListsOver(ids) ==
  {<<>>} \cup UNION {{<<Catalogue[a]>> \o l : l \in ListsOver(ids \ {a})} : a \in ids}
Lists == ListsOver(AlarmIds)
\* The alarm lists of the evaluation-pass specification: one or two records
\* of any shape, well-formed (leads 1, 2) or malformed (lead 0, negative
\* lead, no start instant).
Shapes == {<<EventStart[1], -1>>, <<EventStart[1], 0>>, <<EventStart[1], 1>>,
           <<EventStart[1], 2>>, <<Missing, 1>>}
PassLists ==
  {<<Alarm(1, x[1], x[2])>> : x \in Shapes} \cup
  {<<Alarm(1, x[1], x[2]), Alarm(2, y[1], y[2])>> : x \in Shapes, y \in Shapes}
\* What the minutes field holds, a string: nothing (Empty: the field is
\* untouched or cleared, alarmSettings[event.id] is undefined or ""), or a
\* decimal numeral [-]whole.tenths[e exp], as a number input accepts it.
Typed(neg, whole, tenths, exp) ==
  [typed |-> TRUE, neg |-> neg, whole |-> whole, tenths |-> tenths, exp |-> exp]
Empty == [typed |-> FALSE, neg |-> FALSE, whole |-> 0, tenths |-> 0, exp |-> 0]
\* "", "-1", "0", "0.5", "1", "1.5", "0.5e1"
MinutesInputs ==
  {Empty, Typed(TRUE, 1, 0, 0), Typed(FALSE, 0, 0, 0), Typed(FALSE, 0, 5, 0),
   Typed(FALSE, 1, 0, 0), Typed(FALSE, 1, 5, 0), Typed(FALSE, 0, 5, 1)}
\* The instants the wall clock is observed at: the event start and the
\* trigger instants of the leads -1, 1 and 2, each with the millisecond
\* before it.
Instants ==
  UNION {{EventStart[e] - l * MsPerMinute - 1, EventStart[e] - l * MsPerMinute} :
            e \in EventIds, l \in {-1, 0, 1, 2}}
\* How the browser may answer one firing of one alarm: every call succeeds;
\* the promise of play() rejects (no user gesture yet); the Notification
\* constructor throws (as on platforms that only allow notifications from a
\* service worker); localStorage.setItem throws (quota, storage disabled);
\* the page is terminated between triggerAlarm and setItem.
Outcomes == {"ok", "audioRejects", "notifThrows", "setItemThrows", "killed"}
ChannelFailures == {"audioRejects", "notifThrows"}
Permissions == {"default", "granted", "denied"}

VARIABLES
  now,            \* the wall clock (new Date())
  permission,     \* Notification.permission
  userEmail,      \* localStorage has the key userEmail
  triggered,      \* ids a with localStorage key alarm_triggered_<a>
  mounted,        \* the App component is mounted
  email,          \* state email is non-empty
  isAuthenticated,\* state isAuthenticated
  alarms,         \* state alarms
  timers,         \* the page's active intervals
  inflight,       \* requests awaiting their response
  fired,          \* history: ids triggerAlarm was ever invoked for
  markedAtReload, \* history: the markers present at the last page load
  acked,          \* history: ids whose DELETE the backend has acknowledged
                  \*   since the page last set its alarm list
  pass            \* observation: the evaluation pass run by the last step

vars == <<now, permission, userEmail, triggered, mounted, email, isAuthenticated,
          alarms, timers, inflight, fired, markedAtReload, acked,
          pass>>

\* ------------------------------------------------------------------- dates
\* A Date is its time value, or the invalid date (time value NaN).
NaN == [nan |-> TRUE, t |-> 0]
Date(v) == IF v = Missing THEN NaN ELSE [nan |-> FALSE, t |-> v]
\* Relational operators on dates: any comparison with NaN is false.
DateGE(a, b) == ~a.nan /\ ~b.nan /\ a.t >= b.t
DateLT(a, b) == ~a.nan /\ ~b.nan /\ a.t < b.t

eventTime(alarm) == Date(alarm.event_start)
alarmTime(alarm) ==
  IF eventTime(alarm).nan THEN NaN
  ELSE [nan |-> FALSE,
        t |-> eventTime(alarm).t - alarm.alarm_minutes_before * MsPerMinute]

\* The window test with its lower bound exclusive, with its upper bound
\* inclusive, and open at the trigger instant alone.
InWindowAtTrigger(n, alarm) ==
  /\ DateGE(Date(n), alarmTime(alarm))
  /\ DateGE(alarmTime(alarm), Date(n))
  /\ DateLT(Date(n), eventTime(alarm))
InWindowExclusiveLower(n, alarm) ==
  /\ DateGE(Date(n), alarmTime(alarm))
  /\ Date(n) # alarmTime(alarm)
  /\ DateLT(Date(n), eventTime(alarm))
InWindowInclusiveUpper(n, alarm) ==
  /\ DateGE(Date(n), alarmTime(alarm))
  /\ DateGE(eventTime(alarm), Date(n))
\* now >= alarmTime && now < eventTime
InWindow(n, alarm) ==
  /\ DateGE(Date(n), alarmTime(alarm))
  /\ DateLT(Date(n), eventTime(alarm))

\* The decision of the window test at instant n, by its two comparisons:
\* Fire when both hold, Expired when now < eventTime fails because the event
\* has started, Pending otherwise.
evaluate(n, alarm) ==
  IF InWindow(n, alarm) THEN "Fire"
  ELSE IF DateGE(Date(n), eventTime(alarm)) THEN "Expired"
  ELSE "Pending"

\* ----------------------------------------------------------------- fan-out
\* The fan-out with the OS notification attempted unless permission is denied.
triggerAlarmUnlessDenied(oc, perm, audioRef) ==
  LET notifRun == perm # "denied"
  IN  [audio |-> audioRef, toast |-> TRUE, notif |-> notifRun,
       threw |-> notifRun /\ oc = "notifThrows"]
\* The channels one call of triggerAlarm reaches, and whether it throws,
\* when the browser answers it with oc.  audioRef: audioRef.current is set
\* (the <audio> element is mounted).  A rejected play() promise is caught.
triggerAlarm(oc, perm, audioRef) ==
  LET notifRun == perm = "granted"
  IN  [audio |-> audioRef, toast |-> TRUE, notif |-> notifRun,
       threw |-> notifRun /\ oc = "notifThrows"]

NoChan == [audio |-> FALSE, toast |-> FALSE, notif |-> FALSE, threw |-> FALSE]
Skip == [fire |-> FALSE, chan |-> NoChan, mark |-> FALSE, threw |-> FALSE,
         killed |-> FALSE]
\* triggerAlarm(alarm); localStorage.setItem(triggeredKey, 'true') answered
\* with oc.  killed: the page is terminated between the two statements.
fireAndMark(oc, perm, audioRef) ==
  LET r == triggerAlarm(oc, perm, audioRef)
      dead == ~r.threw /\ oc = "killed"
      setThrew == ~r.threw /\ ~dead /\ oc = "setItemThrows"
  IN [fire |-> TRUE, chan |-> r, mark |-> ~r.threw /\ ~dead /\ ~setThrew,
      threw |-> r.threw \/ setThrew, killed |-> dead]

\* The callback without the look-up of the marker.
checkAlarmNoDedup(alarm, n, store, oc, perm, audioRef) ==
  IF InWindow(n, alarm) THEN fireAndMark(oc, perm, audioRef) ELSE Skip
\* The callback with the marker written outside the window test.
checkAlarmMarksAlways(alarm, n, store, oc, perm, audioRef) ==
  IF InWindow(n, alarm) /\ alarm.id \notin store
  THEN fireAndMark(oc, perm, audioRef)
  ELSE [Skip EXCEPT !.mark = TRUE]
\* The callback with the marker looked up by event: any marked alarm of the
\* same event suppresses the firing.
checkAlarmDedupByEvent(alarm, n, store, oc, perm, audioRef) ==
  IF /\ InWindow(n, alarm)
     /\ \A b \in DOMAIN Catalogue :
           Catalogue[b].event_id = alarm.event_id => b \notin store
  THEN fireAndMark(oc, perm, audioRef)
  ELSE Skip
\* The body of the forEach callback for one alarm.
checkAlarm(alarm, n, store, oc, perm, audioRef) ==
  IF InWindow(n, alarm) /\ alarm.id \notin store
  THEN fireAndMark(oc, perm, audioRef)
  ELSE Skip

\* The record of one evaluation pass: the list it ran over, how many of its
\* elements the callback ran on, the ids it called triggerAlarm for, the
\* markers after it, whether it ended by an exception or with the process;
\* f is the alarm whose firing the browser answered with oc (0: none), and
\* chan the channels that firing reached; again holds the ids it fired that
\* an earlier pass had fired already; notifs holds the ids it constructed a
\* Notification for.
NoPass == [ran |-> FALSE, via |-> "none", list |-> <<>>, reached |-> 0,
           fired |-> {}, store |-> {}, f |-> 0, oc |-> "ok", chan |-> NoChan,
           threw |-> FALSE, killed |-> FALSE, again |-> {}, notifs |-> {}]

\* alarms.forEach(...): the callback on each element in order; an exception
\* (or the end of the process) ends the iteration.  ans = <<f, kind>>: the
\* firing of alarm f is answered with kind, every other firing with "ok".
RECURSIVE forEach(_, _, _, _, _, _, _)
forEach(list, i, n, ans, perm, audioRef, acc) ==
  IF i > Len(list) \/ acc.threw \/ acc.killed THEN acc
  ELSE LET alarm == list[i]
           mine == alarm.id = ans[1]
           s == checkAlarm(alarm, n, acc.store,
                           IF mine THEN ans[2] ELSE "ok", perm, audioRef)
       IN forEach(list, i + 1, n, ans, perm, audioRef,
            [acc EXCEPT
               !.reached = i,
               !.fired = IF s.fire THEN @ \cup {alarm.id} ELSE @,
               !.notifs = IF s.fire /\ s.chan.notif THEN @ \cup {alarm.id} ELSE @,
               !.store = IF s.mark THEN @ \cup {alarm.id} ELSE @,
               !.f = IF s.fire /\ mine THEN alarm.id ELSE @,
               !.oc = IF s.fire /\ mine THEN ans[2] ELSE @,
               !.chan = IF s.fire /\ mine THEN s.chan ELSE @,
               !.threw = s.threw,
               !.killed = s.killed])

\* One evaluation pass over list at instant n, started by via.
checkAlarms(list, n, store, ans, perm, audioRef, via) ==
  forEach(list, 1, n, ans, perm, audioRef,
          [NoPass EXCEPT !.ran = TRUE, !.via = via, !.list = list, !.store = store])

\* The answers the browser can give during a pass over list: it answers the
\* firings that happen, so an answer other than "ok" goes to an alarm of
\* the list that the pass would fire.
Answers(list, n, store) ==
  {<<0, "ok">>} \cup
  ({list[j].id : j \in {k \in DOMAIN list :
                          checkAlarm(list[k], n, store, "ok", "default", TRUE).fire}}
   \X (Outcomes \ {"ok"}))

\* ------------------------------------------------------------------ timers
\* A timer is [ref, due, alarms]: ref says that alarmCheckIntervalRef.current
\* holds its id, due is the instant of its next callback, alarms is the list
\* the checkAlarms of its callback closes over.
unref(ts) == [i \in DOMAIN ts |-> [ts[i] EXCEPT !.ref = FALSE]]
\* if (alarmCheckIntervalRef.current) clearInterval(alarmCheckIntervalRef.current)
clearInterval(ts) == SelectSeq(ts, LAMBDA t : ~t.ref)
setInterval(ts, list, n) ==
  Append(unref(ts), [ref |-> TRUE, due |-> n + TickInterval, alarms |-> list])

\* Arming without keeping the id setInterval returns in the ref.
startAlarmMonitoringNoRef(ts, list, n, store, ans, perm) ==
  [timers |-> unref(setInterval(clearInterval(ts), list, n)),
   pass |-> checkAlarms(list, n, store, ans, perm, TRUE, "effect")]
\* Clear the interval of the ref, create the new one, check immediately.
startAlarmMonitoring(ts, list, n, store, ans, perm) ==
  [timers |-> setInterval(clearInterval(ts), list, n),
   pass |-> checkAlarms(list, n, store, ans, perm, TRUE, "effect")]

\* The effect leaving an interval that is already active as it is.
monitoringEffectKeepsTimer(ts, auth, list, n, store, ans, perm) ==
  IF auth /\ Len(list) > 0
  THEN IF ts # <<>>
       THEN [timers |-> ts,
             pass |-> checkAlarms(list, n, store, ans, perm, TRUE, "effect")]
       ELSE startAlarmMonitoring(ts, list, n, store, ans, perm)
  ELSE [timers |-> clearInterval(ts), pass |-> NoPass]
\* The effect on [alarms, isAuthenticated]: the cleanup of its last run, then
\* its body with the new state.
monitoringEffect(ts, auth, list, n, store, ans, perm) ==
  IF auth /\ Len(list) > 0
  THEN startAlarmMonitoring(clearInterval(ts), list, n, store, ans, perm)
  ELSE [timers |-> clearInterval(ts), pass |-> NoPass]

\* ---------------------------------------------------------------- requests
AuthReq   == [kind |-> "auth", lead |-> 0, id |-> 0]
AlarmsReq == [kind |-> "alarms", lead |-> 0, id |-> 0]
CreateReq(l) == [kind |-> "create", lead |-> l, id |-> 0]
DeleteReq(a) == [kind |-> "delete", lead |-> 0, id |-> a]
Put(b, m) == b (+) SetToBag({m})
Take(b, m) == b (-) SetToBag({m})
Room == BagCardinality(inflight) < MaxInflight

\* The effect on [isAuthenticated, email]: loadCalendarEvents() and
\* loadAlarms() when both are set and one of them changed.  (The events list
\* and the loading flag are read by the rendering alone and are left out.)
loadEffect(wasAuth, wasEmail, auth, em, infl) ==
  IF (auth # wasAuth \/ em # wasEmail) /\ auth /\ em THEN Put(infl, AlarmsReq) ELSE infl

\* The number a string converts to in a comparison, in tenths.
ToNumber(m) ==
  (IF m.neg THEN -1 ELSE 1) * (m.whole * 10 + m.tenths) * (10 ^ m.exp)
\* parseInt(minutes): the integer that the leading sign and digits of the
\* string spell; it stops at the first character that is neither.
parseInt(m) == (IF m.neg THEN -1 ELSE 1) * m.whole
\* !minutes || minutes < 1: the string is empty, or its number is below 1.
Rejected(m) == ~m.typed \/ ToNumber(m) < 10

IdsOf(list) == {list[i].id : i \in DOMAIN list}
\* alarms.find(alarm => alarm.event_id === eventId): the index of the first
\* alarm of the event, 0 when it has none.
getAlarmForEvent(list, e) ==
  LET hits == {i \in DOMAIN list : list[i].event_id = e}
  IN IF hits = {} THEN 0 ELSE CHOOSE i \in hits : \A j \in hits : i <= j

\* ------------------------------------------------------------ state change
\* The state a step leaves: the React state as set by the step, unless the
\* pass of the step ended the process (killed) or threw inside an effect, in
\* which case React unmounts the component tree; the interval created by the
\* effect that threw has no cleanup registered and stays active.
Settle(auth, em, list, ts, infl, p, inEffect) ==
  /\ pass' = [p EXCEPT !.again = p.fired \cap fired]
  /\ triggered' = IF p.ran THEN p.store ELSE triggered
  /\ fired' = fired \cup p.fired
  /\ IF p.killed
     THEN /\ mounted' = FALSE /\ email' = FALSE /\ isAuthenticated' = FALSE
          /\ alarms' = <<>> /\ timers' = <<>> /\ inflight' = EmptyBag
     ELSE IF p.threw /\ inEffect
     THEN /\ mounted' = FALSE /\ email' = FALSE /\ isAuthenticated' = FALSE
          /\ alarms' = <<>> /\ timers' = unref(ts) /\ inflight' = EmptyBag
     ELSE /\ mounted' = mounted /\ email' = em /\ isAuthenticated' = auth
          /\ alarms' = list /\ timers' = ts /\ inflight' = infl

Quiet == pass' = NoPass /\ UNCHANGED <<triggered, fired>>

\* ----------------------------------------------------------------- actions
Init ==
  /\ now = 59999
  /\ permission = "default"
  /\ userEmail = FALSE
  /\ triggered = {}
  /\ mounted = TRUE
  /\ email = FALSE
  /\ isAuthenticated = FALSE
  /\ alarms = <<>>
  /\ timers = <<>>
  /\ inflight = EmptyBag
  /\ fired = {}
  /\ markedAtReload = {}
  /\ acked = {}
  /\ pass = NoPass

\* The wall clock moves on.
Advance ==
  /\ \E t \in Instants : t > now /\ now' = t
  /\ Quiet
  /\ UNCHANGED <<permission, userEmail, mounted, email, isAuthenticated, alarms,
                 timers, inflight, markedAtReload, acked>>

\* What a page load leaves of the markers: nothing, had they been kept in
\* the memory of the page; all of them, as localStorage keeps them.
storageAfterReloadCleared(store) == {}
storageAfterReload(store) == store

\* The page is loaded (again): every React state, ref, timer and outstanding
\* request of the old page is gone, localStorage is kept, and the mount
\* effect runs.  cb: the URL carries ?email=..&auth=success (the return from
\* the OAuth flow that handleGoogleLogin navigates to).
Reload(cb) ==
  /\ triggered' = storageAfterReload(triggered)
  /\ markedAtReload' = triggered
  /\ acked' = {}
  /\ mounted' = TRUE /\ alarms' = <<>> /\ timers' = <<>>
  /\ pass' = NoPass /\ fired' = fired
  /\ isAuthenticated' = cb
  /\ email' = (cb \/ userEmail)
  /\ userEmail' = (cb \/ userEmail)
  /\ inflight' = IF cb THEN SetToBag({AlarmsReq})
                 ELSE IF userEmail THEN SetToBag({AuthReq}) ELSE EmptyBag
  /\ UNCHANGED <<now, permission>>

\* The continuation of checkAuthStatus.
AuthStatusResponse(res) ==
  /\ mounted /\ BagIn(AuthReq, inflight)
  /\ IF res = "authenticated"
     THEN \E ans \in Answers(alarms, now, triggered) :
          LET r == monitoringEffect(timers, TRUE, alarms, now, triggered, ans,
                                    permission)
          IN /\ Settle(TRUE, email, alarms, r.timers,
                       loadEffect(isAuthenticated, email, TRUE, email,
                                  Take(inflight, AuthReq)),
                       r.pass, TRUE)
             /\ userEmail' = userEmail
     ELSE /\ userEmail' = FALSE
          /\ inflight' = Take(inflight, AuthReq)
          /\ Quiet
          /\ UNCHANGED <<mounted, email, isAuthenticated, alarms, timers>>
  /\ UNCHANGED <<now, permission, markedAtReload, acked>>

\* The continuation of loadAlarms with a catch that empties the list.
AlarmsResponseResetsOnError(ok) ==
  /\ mounted /\ BagIn(AlarmsReq, inflight)
  /\ \E data \in (IF ok THEN Lists ELSE {<<>>}) :
     \E ans \in Answers(data, now, triggered) :
       LET r == monitoringEffect(timers, isAuthenticated, data, now,
                                 triggered, ans, permission)
       IN Settle(isAuthenticated, email, data, r.timers,
                 Take(inflight, AlarmsReq), r.pass, TRUE)
  /\ acked' = {}
  /\ UNCHANGED <<now, permission, userEmail, markedAtReload>>
\* The continuation of loadAlarms: setAlarms(response.data) with the list
\* the backend returned, or the catch.
AlarmsResponse(ok) ==
  /\ mounted /\ BagIn(AlarmsReq, inflight)
  /\ IF ok
     THEN \E data \in Lists : \E ans \in Answers(data, now, triggered) :
          LET r == monitoringEffect(timers, isAuthenticated, data, now,
                                    triggered, ans, permission)
          IN Settle(isAuthenticated, email, data, r.timers,
                    Take(inflight, AlarmsReq), r.pass, TRUE)
     ELSE /\ inflight' = Take(inflight, AlarmsReq)
          /\ Quiet
          /\ UNCHANGED <<mounted, email, isAuthenticated, alarms, timers>>
  /\ UNCHANGED <<now, permission, userEmail, markedAtReload>>
  /\ acked' = IF ok THEN {} ELSE acked

\* The click on Set Alarm of event e with m typed into its field; the card
\* of an event shows the field while the event has no alarm in alarms.
handleSetAlarm(e, m) ==
  /\ mounted /\ isAuthenticated /\ getAlarmForEvent(alarms, e) = 0
  /\ IF Rejected(m)
     THEN inflight' = inflight
     ELSE Room /\ inflight' = Put(inflight, CreateReq(parseInt(m)))
  /\ Quiet
  /\ UNCHANGED <<now, permission, userEmail, mounted, email, isAuthenticated,
                 alarms, timers, markedAtReload, acked>>

\* The continuation of handleSetAlarm: loadAlarms() once the backend has
\* answered the POST, or the catch.
CreateResponse(m, ok) ==
  /\ mounted /\ BagIn(m, inflight) /\ m.kind = "create"
  /\ inflight' = IF ok THEN Put(Take(inflight, m), AlarmsReq) ELSE Take(inflight, m)
  /\ Quiet
  /\ UNCHANGED <<now, permission, userEmail, mounted, email, isAuthenticated,
                 alarms, timers, markedAtReload, acked>>

\* The click on the delete button of alarm a; the card of an event shows
\* the button for the alarm getAlarmForEvent finds.
handleDeleteAlarm(a) ==
  /\ mounted /\ isAuthenticated
  /\ \E e \in EventIds : /\ getAlarmForEvent(alarms, e) # 0
                          /\ alarms[getAlarmForEvent(alarms, e)].id = a
  /\ Room /\ inflight' = Put(inflight, DeleteReq(a))
  /\ Quiet
  /\ UNCHANGED <<now, permission, userEmail, mounted, email, isAuthenticated,
                 alarms, timers, markedAtReload, acked>>

\* The continuation of handleDeleteAlarm: loadAlarms() once the backend has
\* answered the DELETE, or the catch.
DeleteResponse(m, ok) ==
  /\ mounted /\ BagIn(m, inflight) /\ m.kind = "delete"
  /\ inflight' = IF ok THEN Put(Take(inflight, m), AlarmsReq) ELSE Take(inflight, m)
  /\ Quiet
  /\ UNCHANGED <<now, permission, userEmail, mounted, email, isAuthenticated,
                 alarms, timers, markedAtReload>>
  /\ acked' = IF ok THEN acked \cup {m.id} ELSE acked

\* The logout with the markers removed along with userEmail.
handleLogoutClearsMarkers ==
  /\ mounted /\ isAuthenticated
  /\ userEmail' = FALSE /\ triggered' = {}
  /\ email' = FALSE /\ isAuthenticated' = FALSE /\ alarms' = <<>>
  /\ timers' = clearInterval(timers)
  /\ pass' = NoPass
  /\ UNCHANGED <<now, permission, mounted, inflight, fired, markedAtReload>>
  /\ acked' = {}
\* The click on Logout.
handleLogout ==
  /\ mounted /\ isAuthenticated
  /\ userEmail' = FALSE
  /\ LET r == monitoringEffect(timers, FALSE, <<>>, now, triggered, <<0, "ok">>,
                               permission)
     IN Settle(FALSE, FALSE, <<>>, r.timers, inflight, r.pass, TRUE)
  /\ UNCHANGED <<now, permission, markedAtReload>>
  /\ acked' = {}

\* The click on Enable Notifications; answer is what the user chooses in
\* the browser's prompt.
requestNotificationPermission(answer) ==
  /\ mounted /\ isAuthenticated
  /\ permission' = IF permission = "default" THEN answer ELSE permission
  /\ Quiet
  /\ UNCHANGED <<now, userEmail, mounted, email, isAuthenticated, alarms, timers,
                 inflight, markedAtReload, acked>>

\* The callback of interval i runs: checkAlarms() over the list it closes
\* over.  An exception it throws is reported and the interval goes on.
Tick(i) ==
  /\ i \in DOMAIN timers /\ now >= timers[i].due
  /\ \E ans \in Answers(timers[i].alarms, now, triggered) :
     LET p == checkAlarms(timers[i].alarms, now, triggered, ans, permission,
                          mounted, "tick")
     IN Settle(isAuthenticated, email, alarms,
               [timers EXCEPT ![i].due = now + TickInterval], inflight, p, FALSE)
  /\ UNCHANGED <<now, permission, userEmail, markedAtReload, acked>>

Next ==
  \/ Advance
  \/ \E cb \in BOOLEAN : Reload(cb)
  \/ \E res \in {"authenticated", "unauthenticated", "error"} : AuthStatusResponse(res)
  \/ \E ok \in BOOLEAN : AlarmsResponse(ok)
  \/ \E e \in EventIds, m \in MinutesInputs : handleSetAlarm(e, m)
  \/ \E m \in BagToSet(inflight), ok \in BOOLEAN : CreateResponse(m, ok)
  \/ \E a \in AlarmIds : handleDeleteAlarm(a)
  \/ \E m \in BagToSet(inflight), ok \in BOOLEAN : DeleteResponse(m, ok)
  \/ handleLogout
  \/ \E answer \in Permissions : requestNotificationPermission(answer)
  \/ \E i \in 1..Len(timers) : Tick(i)

Spec == Init /\ [][Next]_vars

\* The evaluation pass on its own: an authenticated page whose interval is
\* armed over any list of PassLists, at any instant, with any markers; the
\* interval ticks as the clock moves on.
InitPass ==
  /\ now \in Instants
  /\ permission \in {"default", "granted"}
  /\ userEmail = TRUE
  /\ triggered \in SUBSET {1, 2}
  /\ mounted = TRUE
  /\ email = TRUE
  /\ isAuthenticated = TRUE
  /\ alarms \in PassLists
  /\ timers = <<[ref |-> TRUE, due |-> now, alarms |-> alarms]>>
  /\ inflight = EmptyBag
  /\ fired = triggered
  /\ markedAtReload = {}
  /\ acked = {}
  /\ pass = NoPass

NextPass == Advance \/ Tick(1)

SpecPass == InitPass /\ [][NextPass]_vars

\* The page on the timer's cadence: the callback of an interval runs at the
\* instant it is due, so the clock does not pass the due instant of an
\* active interval.  The clock is observed every half tick interval, from
\* half a tick before the first trigger instant of the catalogue to a tick
\* and a half after the last.
Step == TickInterval \div 2
TimedStart == EventStart[1] - 2 * MsPerMinute - Step
TimedEnd == EventStart[1] - MsPerMinute + TickInterval + Step
AdvanceTimely ==
  /\ now + Step <= TimedEnd
  /\ \A i \in DOMAIN timers : now + Step <= timers[i].due
  /\ now' = now + Step
  /\ Quiet
  /\ UNCHANGED <<permission, userEmail, mounted, email, isAuthenticated, alarms,
                 timers, inflight, markedAtReload, acked>>

\* The page just loaded from the OAuth callback: authenticated, the first
\* GET /alarms awaiting its response, no markers.
InitTimed ==
  /\ now = TimedStart
  /\ permission \in {"default", "granted"}
  /\ userEmail = TRUE
  /\ triggered = {}
  /\ mounted = TRUE
  /\ email = TRUE
  /\ isAuthenticated = TRUE
  /\ alarms = <<>>
  /\ timers = <<>>
  /\ inflight = SetToBag({AlarmsReq})
  /\ fired = {}
  /\ markedAtReload = {}
  /\ acked = {}
  /\ pass = NoPass

NextTimed ==
  \/ AdvanceTimely
  \/ \E ok \in BOOLEAN : AlarmsResponse(ok)
  \/ \E e \in EventIds, m \in MinutesInputs : handleSetAlarm(e, m)
  \/ \E m \in BagToSet(inflight), ok \in BOOLEAN : CreateResponse(m, ok)
  \/ \E a \in AlarmIds : handleDeleteAlarm(a)
  \/ \E m \in BagToSet(inflight), ok \in BOOLEAN : DeleteResponse(m, ok)
  \/ \E i \in 1..Len(timers) : Tick(i)

SpecTimed == InitTimed /\ [][NextTimed]_vars

\* ================================================================== claims
\* The alarms the callback of the last pass ran on.
Reached == {pass.list[i] : i \in 1..pass.reached}
\* start - lead * 60000 <= now < start, on the numbers.
Open(a) ==
  /\ a.event_start # Missing
  /\ a.event_start - a.alarm_minutes_before * 60000 <= now
  /\ now < a.event_start
WellFormed(a) == a.event_start # Missing /\ a.alarm_minutes_before >= 1

\* C1: once the marker of an alarm id is in localStorage, no later pass
\* (timer tick or sync-triggered) calls triggerAlarm for that id; a second
\* tick inside the window finds the marker of the first and does not fire.
C1_NoFanoutOnceMarked == [][pass'.ran => pass'.fired \cap triggered = {}]_vars
\* A tick ran on a marked alarm inside its window and did not fire it.
C1_Witness ==
  /\ pass.ran /\ pass.via = "tick"
  /\ \E a \in Reached : a.id \in triggered /\ a.id \notin pass.fired /\ Open(a)

\* C2: a marker recorded before a page reload keeps every pass of the
\* reloaded page from firing that alarm, inside its window too.
C2_NoRefireAfterReload == pass.ran => pass.fired \cap markedAtReload = {}
\* A pass of the reloaded page ran on an alarm marked before the reload,
\* inside its window.
C2_Witness ==
  /\ pass.ran
  /\ \E a \in Reached : a.id \in markedAtReload /\ Open(a) /\ a.id \notin pass.fired

\* C3: a pass at instant now calls triggerAlarm for a well-formed alarm
\* (lead >= 1) it runs on only if start - lead*60000 <= now < start, and
\* inside that half-open window it does fire the alarm unless its marker is
\* present: nothing fires before the trigger instant, the trigger instant
\* itself is inside, the event start is outside.
C3_FiresExactlyInWindow ==
  pass.ran =>
    \A a \in Reached : WellFormed(a) =>
       /\ a.id \in pass.fired => Open(a)
       /\ Open(a) /\ a.id \notin triggered => a.id \in pass.fired
\* A pass at the trigger instant itself fired the alarm.
C3_Witness ==
  /\ pass.ran
  /\ \E a \in Reached :
        /\ WellFormed(a) /\ a.id \in pass.fired
        /\ now = a.event_start - a.alarm_minutes_before * 60000

\* C4 (as claimed): the pass that a sync runs at once fires every alarm of
\* the new list whose window is open and whose marker is absent.
C4_SyncPassFiresOpenAlarms ==
  pass.ran /\ pass.via = "effect" /\ ~pass.killed =>
    \A i \in DOMAIN pass.list :
       Open(pass.list[i]) /\ pass.list[i].id \notin triggered
         => pass.list[i].id \in pass.fired

\* C5 (as claimed): when a channel of a firing fails (audio, toast or OS
\* notification, by exception or rejection), the other channels are still
\* invoked and the marker of the alarm is still recorded.
C5_ChannelFailureIsolated ==
  pass.ran /\ pass.f # 0 /\ pass.oc \in ChannelFailures =>
    /\ pass.chan.toast
    /\ permission = "granted" => pass.chan.notif
    /\ pass.f \in triggered

\* C6 (as claimed): when localStorage.setItem throws for one alarm, the
\* pass still runs on every other alarm of the list.
C6_SetItemFailureContained ==
  pass.ran /\ pass.oc = "setItemThrows" => pass.reached = Len(pass.list)

\* C7: at most one interval is active at any time.
C7_AtMostOneTimer == Len(timers) <= 1
\* Monitoring was armed a second time in the life of one page: the pass of
\* the arming found an alarm already marked by an earlier pass of that page.
C7_Witness ==
  /\ Len(timers) = 1 /\ pass.ran /\ pass.via = "effect"
  /\ (triggered \ markedAtReload) \ pass.fired # {}

\* C8 (as claimed): an interval is active only while the component is
\* mounted, the user is authenticated and the alarm list is non-empty, and
\* a pass runs only then.
C8_TimerOnlyWhileMonitoring ==
  /\ timers # <<>> => mounted /\ isAuthenticated /\ alarms # <<>>
  /\ pass.ran /\ ~pass.threw /\ ~pass.killed =>
        mounted /\ isAuthenticated /\ alarms # <<>>

\* C9: a malformed alarm (lead 0 or negative, or no start instant) is never
\* fired, and the pass goes on to the next alarm of the list after it.
C9_MalformedSkipped ==
  pass.ran =>
    \A i \in 1..pass.reached : ~WellFormed(pass.list[i]) =>
       /\ pass.list[i].id \notin pass.fired
       /\ i < Len(pass.list) => pass.reached > i
\* A pass ran on a malformed alarm and then fired the alarm after it.
C9_Witness ==
  /\ pass.ran /\ pass.reached = 2
  /\ ~WellFormed(pass.list[1]) /\ pass.list[2].id \in pass.fired

\* C10: a marker is present only for an alarm triggerAlarm was invoked for,
\* and an alarm that was fired without its marker being written is fired
\* again by a pass that runs on it while its window is open.
C10_MarkerOnlyAfterFanout ==
  /\ triggered \subseteq fired
  /\ pass.ran =>
       \A a \in Reached :
          Open(a) /\ a.id \in fired /\ a.id \notin triggered => a.id \in pass.fired
\* A pass fired an alarm that had been fired before without being marked.
C10_Witness == pass.ran /\ pass.again # {}

\* C11 (as claimed): while monitoring is armed over a list that holds an
\* unmarked alarm, the alarm has been fired once a tick interval has passed
\* since its trigger instant (the event not yet started), whatever the
\* interleaving of ticks and syncs.
C11_FiredWithinOneTick ==
  mounted /\ isAuthenticated =>
    \A i \in DOMAIN timers : timers[i].ref =>
      \A k \in DOMAIN timers[i].alarms :
        LET a == timers[i].alarms[k]
        IN  /\ WellFormed(a) /\ a.id \notin triggered
            /\ a.event_start - a.alarm_minutes_before * 60000 + 10000 <= now
            /\ now < a.event_start
            => a.id \in fired

\* C12: for a fixed alarm, once the window test decides Fire at an instant
\* it decides Fire or Expired, never Pending, at every later instant.
C12_FireNeverBackToPending ==
  [][\A k \in DOMAIN alarms :
        evaluate(now, alarms[k]) = "Fire" => evaluate(now', alarms[k]) # "Pending"]_vars
\* An alarm that a pass fired (without its marker being written) at an
\* earlier instant is decided Expired now.
C12_Witness ==
  \E k \in DOMAIN alarms :
     /\ alarms[k].id \in fired \ triggered
     /\ evaluate(now, alarms[k]) = "Expired"

\* C13: a firing constructs the OS notification exactly when permission is
\* granted at that moment, and the permission changes in no step other than
\* requestNotificationPermission (which runs no pass), from "default" only.
C13_NotificationOnlyWhenGranted ==
  [][/\ pass'.ran =>
          /\ permission' = permission
          /\ pass'.notifs = IF permission = "granted" THEN pass'.fired ELSE {}
     /\ permission' # permission =>
          /\ permission = "default"
          /\ \E answer \in Permissions : requestNotificationPermission(answer)]_vars
\* A pass fired an alarm while permission was denied and skipped the OS
\* notification.
C13_Witness ==
  pass.ran /\ pass.fired # {} /\ permission = "denied" /\ pass.notifs = {}

\* C14: no step removes a marker: the set of marked alarm ids never shrinks,
\* whatever the step (pass, sync, deletion, logout, failed auth check,
\* reload), and a pass adds markers for alarms it fired and for no other.
C14_MarkersNeverRemoved ==
  [][/\ triggered \subseteq triggered'
     /\ pass'.ran => pass'.store = triggered \cup (pass'.store \cap pass'.fired)]_vars
\* Markers are present on a page that was logged out (or whose auth check
\* failed): userEmail has been removed, the markers have not.
C14_Witness ==
  mounted /\ ~userEmail /\ ~isAuthenticated /\ triggered # {}

\* C15 (as claimed): every create request that handleSetAlarm has sent
\* carries alarm_minutes_before >= 1.
C15_CreateCarriesValidLead ==
  \A m \in BagToSet(inflight) : m.kind = "create" => m.lead >= 1

C17_DedupKeyedByAlarmId ==
  [][pass'.ran =>
       \A i \in 1..pass'.reached :
          LET a == pass'.list[i]
          IN  a.id \in pass'.fired <=> (Open(a) /\ a.id \notin triggered)]_vars
\* A pass fired an alarm while another alarm of the same event, on which it
\* ran too, was marked already.
C17_Witness ==
  /\ pass.ran
  /\ \E a \in Reached, b \in Reached :
        /\ a.id # b.id /\ a.event_id = b.event_id
        /\ a.id \in pass.fired
        /\ b.id \in pass.store \ pass.fired

\* C18 (as claimed): once the backend has acknowledged the deletion of an
\* alarm, no pass fires that alarm, whether the reload of the list that
\* follows is still awaited, has failed or has been answered.
C18_NoFireAfterDeleteAck == pass.ran => pass.fired \cap acked = {}

\* C19: a GET /alarms that fails changes nothing of the monitoring: the
\* alarm list, the active interval, the markers and the fired alarms stay as
\* they are, and no pass runs.
C19_FailedReloadChangesNothing ==
  [][AlarmsResponse(FALSE) =>
       /\ UNCHANGED <<alarms, timers, triggered, fired, isAuthenticated, mounted>>
       /\ ~pass'.ran]_vars
\* The reload that followed an acknowledged delete has failed: it is no
\* longer awaited, the list still holds the deleted alarm and the interval
\* armed over that list is still active.
C19_Witness ==
  /\ mounted /\ isAuthenticated
  /\ acked # {} /\ acked \subseteq IdsOf(alarms)
  /\ ~BagIn(AlarmsReq, inflight)
  /\ Len(timers) = 1 /\ timers[1].ref /\ timers[1].alarms = alarms

====
